---- MODULE Spec2Model ----
(***************************************************************************)
(* Model of the "ze-partners" registry (Modulo_8/ze-partners/app.py):      *)
(* the in-memory store partners_store, the R-tree rtree_idx, the snapshot  *)
(* file DATAFILE guarded by file_lock, and the request threads that run    *)
(* _insert_partner_into_store, _get_partner_by_id and                      *)
(* _find_nearest_partner_including_point.                                  *)
(*                                                                         *)
(* Encoding.  Coordinates are integers on a small grid.  A GeoJSON         *)
(* geometry is [type, coordinates] where coordinates is a sequence of      *)
(* rings (a ring is a closed sequence of points); a Polygon carries its    *)
(* exterior ring, a MultiPolygon the exterior ring of each polygon, a      *)
(* Point the one-ring, one-point sequence <<<<p>>>>.  Distances are        *)
(* compared through their squares.  An identifier is [kind, n, s]: an      *)
(* integer n or a string s.                                                *)
(***************************************************************************)
EXTENDS Integers, Sequences, FiniteSets, TLC

\* ------------------------------------------------------------------ bounds
NumThreads == 2
MaxRegisters == 3

Threads == 1..NumThreads

\* ------------------------------------------------------------- identifiers
IntId(n) == [kind |-> "int", n |-> n, s |-> ""]
StrId(s) == [kind |-> "str", n |-> 0, s |-> s]

\* str() of a small non-negative integer
DecimalString(n) == <<"0", "1", "2", "3", "4", "5", "6", "7", "8", "9">>[n + 1]

\* mutant: an integer keeps a representation of its own
id_to_repr(pid) == IF pid.kind = "int" THEN "int" ELSE pid.s

\* lines 56-57: str(pid)
id_to_str(pid) == IF pid.kind = "int" THEN DecimalString(pid.n) ELSE pid.s

\* hash() of a string: some integer, negative or not, fixed within a process
StringHash(sid) ==
    CASE sid = "1" -> -1729
      [] sid = "p2" -> 40507
      [] OTHER -> 7

Abs(n) == IF n < 0 THEN -n ELSE n

rtree_int_id_from_str(sid) == Abs(StringHash(sid)) % 2147483647

\* ---------------------------------------------------------------- geometry
Min2(a, b) == IF a <= b THEN a ELSE b
Max2(a, b) == IF a >= b THEN a ELSE b
SetMin(S) == CHOOSE m \in S : \A x \in S : m <= x
SetMax(S) == CHOOSE m \in S : \A x \in S : m >= x

\* shapely.geometry.shape: the geometry object of a GeoJSON mapping
shape(g) ==
    [kind |-> g.type,
     polys |-> IF g.type \in {"Polygon", "MultiPolygon"} THEN g.coordinates ELSE <<>>,
     pt |-> IF g.type = "Point" THEN g.coordinates[1][1] ELSE <<0, 0>>]

\* mutant: any geometry kind is accepted
parse_coverage_area_any_kind(g) ==
    IF g.coordinates = <<>> THEN [ok |-> FALSE, polys |-> <<>>]
    ELSE [ok |-> TRUE, polys |-> g.coordinates]

parse_coverage_area(g) ==
    LET geom == shape(g)
        multi == IF geom.kind = "Polygon"
                 THEN [geom EXCEPT !.kind = "MultiPolygon"]
                 ELSE geom
    IN  IF multi.kind # "MultiPolygon" THEN [ok |-> FALSE, polys |-> <<>>]
        ELSE IF multi.polys = <<>> THEN [ok |-> FALSE, polys |-> <<>>]
        ELSE [ok |-> TRUE, polys |-> multi.polys]

parse_address_point(g) ==
    LET geom == shape(g)
    IN  IF geom.kind # "Point" THEN [ok |-> FALSE, pt |-> <<0, 0>>]
        ELSE [ok |-> TRUE, pt |-> geom.pt]

Vertices(polys) ==
    UNION {{polys[i][j] : j \in 1..Len(polys[i])} : i \in 1..Len(polys)}

\* mutant: the box of the first polygon only
bounds_first_polygon(polys) ==
    LET V == {polys[1][j] : j \in 1..Len(polys[1])}
    IN  <<SetMin({v[1] : v \in V}), SetMin({v[2] : v \in V}),
          SetMax({v[1] : v \in V}), SetMax({v[2] : v \in V})>>

\* cov.bounds: (minx, miny, maxx, maxy) over every polygon of the area
bounds(polys) ==
    LET V == Vertices(polys)
    IN  <<SetMin({v[1] : v \in V}), SetMin({v[2] : v \in V}),
          SetMax({v[1] : v \in V}), SetMax({v[2] : v \in V})>>

Cross(a, b, p) == (b[1] - a[1]) * (p[2] - a[2]) - (b[2] - a[2]) * (p[1] - a[1])

OnSegment(a, b, p) ==
    /\ Cross(a, b, p) = 0
    /\ Min2(a[1], b[1]) <= p[1] /\ p[1] <= Max2(a[1], b[1])
    /\ Min2(a[2], b[2]) <= p[2] /\ p[2] <= Max2(a[2], b[2])

OnRing(ring, p) ==
    \E i \in 1..(Len(ring) - 1) : OnSegment(ring[i], ring[i + 1], p)

\* the horizontal ray from p towards +x crosses the edge a-b
RayCrosses(a, b, p) ==
    /\ (a[2] > p[2]) # (b[2] > p[2])
    /\ LET d == b[2] - a[2]
           lhs == (p[1] - a[1]) * d
           rhs == (b[1] - a[1]) * (p[2] - a[2])
       IN  IF d > 0 THEN lhs < rhs ELSE lhs > rhs

InRingInterior(ring, p) ==
    /\ ~OnRing(ring, p)
    /\ Cardinality({i \in 1..(Len(ring) - 1) : RayCrosses(ring[i], ring[i + 1], p)}) % 2 = 1

\* mutant: a point of the boundary counts as contained (MultiPolygon.covers)
contains_or_touches(polys, p) ==
    \E i \in 1..Len(polys) : OnRing(polys[i], p) \/ InRingInterior(polys[i], p)

\* MultiPolygon.contains(Point): the point is in the interior of a polygon
contains(polys, p) == \E i \in 1..Len(polys) : InRingInterior(polys[i], p)

\* Point.distance(Point), squared
distance2(p, q) == (p[1] - q[1]) * (p[1] - q[1]) + (p[2] - q[2]) * (p[2] - q[2])

\* ------------------------------------------------- partners_store (a dict)
\* an insertion-ordered sequence of [sid, item]
StoreKeys(st) == {st[i].sid : i \in DOMAIN st}

StoreGet(st, sid) == st[CHOOSE i \in DOMAIN st : st[i].sid = sid].item

StorePut(st, sid, item) ==
    IF sid \in StoreKeys(st)
    THEN [i \in DOMAIN st |-> IF st[i].sid = sid THEN [sid |-> sid, item |-> item] ELSE st[i]]
    ELSE Append(st, [sid |-> sid, item |-> item])

StoreValues(st) == [i \in DOMAIN st |-> st[i].item]

\* ------------------------------------------------------ rtree_idx (R-tree)
\* a sequence of entries [rid, box, obj]; insert never replaces an entry
rtree_insert(idx, rid, box, obj) == Append(idx, [rid |-> rid, box |-> box, obj |-> obj])

BoxHasPoint(box, p) ==
    /\ box[1] <= p[1] /\ p[1] <= box[3]
    /\ box[2] <= p[2] /\ p[2] <= box[4]

rtree_intersection(idx, p) == SelectSeq(idx, LAMBDA e : BoxHasPoint(e.box, p))

\* ------------------------------------ _find_nearest_partner_including_point
\* mutant: the containment re-test is left out
CoversByBox(st, sid, p) ==
    /\ sid \in StoreKeys(st)
    /\ LET partner == StoreGet(st, sid)
       IN  /\ parse_coverage_area(partner.coverageArea).ok
           /\ parse_address_point(partner.address).ok

\* the index hits whose partner exists, parses and truly contains p
Covers(st, sid, p) ==
    /\ sid \in StoreKeys(st)
    /\ LET partner == StoreGet(st, sid)
           cov == parse_coverage_area(partner.coverageArea)
       IN  /\ cov.ok
           /\ contains(cov.polys, p)
           /\ parse_address_point(partner.address).ok

Candidates(st, idx, p) ==
    LET hits == SelectSeq(rtree_intersection(idx, p), LAMBDA e : Covers(st, e.obj, p))
    IN  [i \in DOMAIN hits |->
            LET partner == StoreGet(st, hits[i].obj)
            IN  [dist |-> distance2(p, parse_address_point(partner.address).pt),
                 partner |-> partner]]

\* mutant: an unstable sort that puts an element before its equals
InsertBeforeEqual(s, x) ==
    LET k == Cardinality({i \in DOMAIN s : s[i].dist < x.dist})
    IN  SubSeq(s, 1, k) \o <<x>> \o SubSeq(s, k + 1, Len(s))

\* list.sort(key=dist): stable, an element goes after every element not larger
InsertByDist(s, x) ==
    LET k == Cardinality({i \in DOMAIN s : s[i].dist <= x.dist})
    IN  SubSeq(s, 1, k) \o <<x>> \o SubSeq(s, k + 1, Len(s))

RECURSIVE SortByDist(_)
SortByDist(c) ==
    IF c = <<>> THEN <<>>
    ELSE InsertByDist(SortByDist(SubSeq(c, 1, Len(c) - 1)), c[Len(c)])

\* mutant: every indexed partner is a candidate, covered or not
nearest_ignoring_coverage(st, idx, p) ==
    LET hits == SelectSeq(idx, LAMBDA e : e.obj \in StoreKeys(st))
    IN  IF hits = <<>> THEN <<>> ELSE <<StoreGet(st, hits[1].obj)>>

\* the answer: <<>> for None, <<partner>> otherwise
find_nearest_partner_including_point(st, idx, p) ==
    LET candidates == Candidates(st, idx, p)
    IN  IF candidates = <<>> THEN <<>>
        ELSE <<SortByDist(candidates)[1].partner>>

\* mutant: the lookup key is the raw identifier, not its string form
get_partner_by_raw_id(st, pid) ==
    IF pid.s \notin StoreKeys(st) THEN <<>> ELSE <<StoreGet(st, pid.s)>>

\* _get_partner_by_id: <<>> for the 404, <<record>> otherwise
get_partner_by_id(st, pid) ==
    LET sid == id_to_str(pid)
    IN  IF sid \notin StoreKeys(st) THEN <<>> ELSE <<StoreGet(st, sid)>>

\* mutant: the identifier test is left out
id_never_exists(st, sid) == FALSE

\* line 113: sid in partners_store
id_already_exists(st, sid) == sid \in StoreKeys(st)

\* mutant: the scan compares the document with the stored key
ensure_unique_document_by_key(st, doc) ==
    \E i \in DOMAIN st : st[i].sid = doc

\* _ensure_unique_document: TRUE when the scan raises
ensure_unique_document(st, doc) ==
    \E i \in DOMAIN st : st[i].item.document = doc

\* -------------------------------------------------------------- _load_store
\* a box that no point query intersects (every bound is NaN)
NaNBox == <<1, 1, 0, 0>>

\* lines 73-76: the decoded file; no file, or text that is not JSON, gives []
json_load(file) == IF file.state = "valid" THEN file.items ELSE <<>>

\* lines 77-78 raise (TypeError, KeyError) when the JSON value is not a list
\* of records with an "id"; nothing catches them
load_raises(file) == file.state = "notrecords"

\* lines 81-82: shape(item["coverageArea"]).bounds.  Any geometry kind has
\* bounds; an empty geometry gives () (the unpacking raises) or four NaN,
\* depending on the shapely release: emptyBounds is "raise" or "nan"
geom_bounds(g, emptyBounds) ==
    IF g.type \notin {"Point", "Polygon", "MultiPolygon"} THEN [ok |-> FALSE, box |-> NaNBox]
    ELSE IF g.coordinates = <<>> THEN [ok |-> emptyBounds = "nan", box |-> NaNBox]
    ELSE [ok |-> TRUE, box |-> bounds(g.coordinates)]

\* lines 77-79: the dict after the loop
RECURSIVE load_dict(_)
load_dict(items) ==
    IF items = <<>> THEN <<>>
    ELSE LET item == items[Len(items)]
         IN  StorePut(load_dict(SubSeq(items, 1, Len(items) - 1)), id_to_str(item.id), item)

\* mutant: the index is not rebuilt
load_index_nothing(items, emptyBounds) == <<>>

\* lines 80-86: the index after the loop; a record whose bounds raise is skipped
RECURSIVE load_index(_, _)
load_index(items, emptyBounds) ==
    IF items = <<>> THEN <<>>
    ELSE LET item == items[Len(items)]
             sid == id_to_str(item.id)
             b == geom_bounds(item.coverageArea, emptyBounds)
             before == load_index(SubSeq(items, 1, Len(items) - 1), emptyBounds)
         IN  IF b.ok THEN rtree_insert(before, rtree_int_id_from_str(sid), b.box, sid)
             ELSE before

\* ------------------------------------------------------------------ inputs
TriRing == <<<<0, 0>>, <<0, 4>>, <<4, 4>>, <<0, 0>>>>
SqRing == <<<<0, 0>>, <<4, 0>>, <<4, 4>>, <<0, 4>>, <<0, 0>>>>
SqLow == <<<<0, 0>>, <<2, 0>>, <<2, 2>>, <<0, 2>>, <<0, 0>>>>
SqHigh == <<<<2, 2>>, <<4, 2>>, <<4, 4>>, <<2, 4>>, <<2, 2>>>>

CovTri == [type |-> "MultiPolygon", coordinates |-> <<TriRing>>]
CovSq == [type |-> "MultiPolygon", coordinates |-> <<SqRing>>]
CovTwo == [type |-> "MultiPolygon", coordinates |-> <<SqLow, SqHigh>>]
CovEmpty == [type |-> "MultiPolygon", coordinates |-> <<>>]

PointGeo(x, y) == [type |-> "Point", coordinates |-> <<<<<<x, y>>>>>>]

Partner(pid, name, doc, cov, addr) ==
    [id |-> pid, tradingName |-> name, ownerName |-> name, document |-> doc,
     coverageArea |-> cov, address |-> addr]

\* records as create_partner hands them over: PartnerCreate has validated
\* that coverageArea.type is MultiPolygon and address a Point of two numbers
Payloads ==
    {Partner(StrId("1"), "A", "doc-1", CovTri, PointGeo(0, 3)),
     Partner(StrId("p2"), "B", "doc-2", CovSq, PointGeo(2, 3)),
     Partner(IntId(1), "C", "doc-2", CovTwo, PointGeo(2, 3)),
     Partner(StrId("p2"), "D", "doc-1", CovTwo, PointGeo(0, 3)),
     Partner(StrId("p2"), "E", "doc-2", CovEmpty, PointGeo(2, 3))}

\* records only a snapshot written by something else can hold
RecA == Partner(StrId("1"), "A", "doc-1", CovTri, PointGeo(0, 3))
RecB == Partner(StrId("p2"), "B", "doc-2", CovSq, PointGeo(2, 3))
RecPointCoverage == Partner(StrId("p3"), "F", "doc-3", PointGeo(1, 3), PointGeo(1, 3))
RecEmptyCoverage == Partner(StrId("p3"), "G", "doc-3", CovEmpty, PointGeo(1, 3))

\* records that reach _insert_partner_into_store only when it is called with
\* a record PartnerCreate has not validated
RecPolygonCoverage ==
    Partner(StrId("p2"), "H", "doc-2", [type |-> "Polygon", coordinates |-> <<SqRing>>],
            PointGeo(2, 3))
RecPolygonAddress ==
    Partner(StrId("p3"), "I", "doc-3", CovSq, [type |-> "Polygon", coordinates |-> <<SqRing>>])

\* tests/test_api.py and the scenario of the specification, in 1/1000 degree
ScenarioRing ==
    <<<<-46580, -23550>>, <<-46580, -23540>>, <<-46570, -23540>>, <<-46580, -23550>>>>
ScenarioPoint == <<-46574, -23551>>
RecScenario ==
    Partner(StrId("test-1"), "T1", "doc-1",
            [type |-> "MultiPolygon", coordinates |-> <<ScenarioRing>>],
            PointGeo(-46574, -23551))

RecNearestId == Partner(StrId("nearest"), "N", "doc-4", CovTwo, PointGeo(0, 3))

AppPayloads ==
    Payloads \cup {RecPointCoverage, RecPolygonCoverage, RecPolygonAddress,
                   RecScenario, RecNearestId}

\* GET /partners/<segment>
PathSegments == {"nearest", "1"}

\* lines 163 and 168: the GET routes under /partners, in declaration order
Routes ==
    <<[param |-> TRUE, segment |-> "", handler |-> "get_partner"],
      [param |-> FALSE, segment |-> "nearest", handler |-> "get_nearest_partner"]>>

RouteMatches(route, segment) == route.param \/ route.segment = segment

\* the router takes the first route that matches the path
dispatch(segment) ==
    Routes[CHOOSE i \in DOMAIN Routes :
              /\ RouteMatches(Routes[i], segment)
              /\ \A j \in 1..(i - 1) : ~RouteMatches(Routes[j], segment)].handler

\* what DATAFILE may hold when the process starts
SnapshotFiles ==
    {[state |-> "missing", items |-> <<>>],
     [state |-> "empty", items |-> <<>>],
     [state |-> "corrupt", items |-> <<>>],
     [state |-> "notrecords", items |-> <<>>],
     [state |-> "valid", items |-> <<RecPointCoverage, RecB>>],
     [state |-> "valid", items |-> <<RecEmptyCoverage, RecA>>]}

EmptyBoundsModes == {"raise", "nan"}

QueryIds == {StrId("1"), IntId(1), StrId("p2")}
QueryPoints == {<<1, 3>>, <<2, 3>>, <<3, 1>>, <<3, 3>>, <<5, 5>>}
AppQueryPoints == QueryPoints \cup {ScenarioPoint}

\* ------------------------------------------------------------------- state
VARIABLES
    partners_store,   \* the dict: sequence of [sid, item] in insertion order
    rtree_idx,        \* the R-tree: sequence of [rid, box, obj]
    datafile,         \* DATAFILE: [state, items]
    file_lock,        \* 0 when free, else the thread that holds it
    pc,               \* per thread: its position in _insert_partner_into_store
    partner_raw,      \* per thread: <<>> or <<the record being registered>>
    scan,             \* per thread: dict size seen when the document scan began
    nreg,             \* Register calls started
    registered,       \* records whose Register returned success
    reply,            \* the response the last step returned to a caller, if any
    proc              \* the process: "starting" (before line 155), "up" or "crashed"

vars == <<partners_store, rtree_idx, datafile, file_lock, pc, partner_raw, scan,
          nreg, registered, reply, proc>>

NoReply ==
    [op |-> "none", rec |-> <<>>, id |-> StrId(""), p |-> <<0, 0>>,
     outcome |-> "none", result |-> <<>>]

RegisterReply(raw, outcome) == [NoReply EXCEPT !.op = "Register", !.rec = <<raw>>,
                                               !.id = raw.id, !.outcome = outcome]

GetReply(pid, result) ==
    [NoReply EXCEPT !.op = "Get", !.id = pid, !.result = result,
                    !.outcome = IF result = <<>> THEN "NotFound" ELSE "Ok"]

NearestReply(p, result) ==
    [NoReply EXCEPT !.op = "Nearest", !.p = p, !.result = result,
                    !.outcome = IF result = <<>> THEN "NoCoverage" ELSE "Ok"]

Init ==
    /\ partners_store = <<>>
    /\ rtree_idx = <<>>
    /\ datafile = [state |-> "missing", items |-> <<>>]
    /\ file_lock = 0
    /\ pc = [t \in Threads |-> "idle"]
    /\ partner_raw = [t \in Threads |-> <<>>]
    /\ scan = [t \in Threads |-> 0]
    /\ nreg = 0
    /\ registered = {}
    /\ reply = NoReply
    /\ proc = "up"

Raw(t) == partner_raw[t][1]
Sid(t) == id_to_str(Raw(t).id)
Quiescent == \A t \in Threads : pc[t] = "idle"

\* the call of thread t ends with this outcome
Return(t, outcome) ==
    /\ pc' = [pc EXCEPT ![t] = "idle"]
    /\ partner_raw' = [partner_raw EXCEPT ![t] = <<>>]
    /\ scan' = [scan EXCEPT ![t] = 0]
    /\ registered' = IF outcome = "Ok" THEN registered \cup {Raw(t)} ELSE registered
    /\ reply' = RegisterReply(Raw(t), outcome)

Goto(t, label) ==
    /\ pc' = [pc EXCEPT ![t] = label]
    /\ reply' = NoReply
    /\ UNCHANGED <<partner_raw, scan, registered>>

\* lines 158-160: a request thread enters _insert_partner_into_store
Register(t, raw) ==
    /\ proc = "up"
    /\ pc[t] = "idle"
    /\ nreg < MaxRegisters
    /\ nreg' = nreg + 1
    /\ pc' = [pc EXCEPT ![t] = "check_id"]
    /\ partner_raw' = [partner_raw EXCEPT ![t] = <<raw>>]
    /\ reply' = NoReply
    /\ UNCHANGED <<partners_store, rtree_idx, datafile, file_lock, scan, registered, proc>>

\* lines 112-114
CheckId(t) ==
    /\ pc[t] = "check_id"
    /\ IF id_already_exists(partners_store, Sid(t))
       THEN Return(t, "DuplicateId")
       ELSE Goto(t, "scan_start")
    /\ UNCHANGED <<partners_store, rtree_idx, datafile, file_lock, nreg, proc>>

\* line 105: the dict iterator is created
DocScanStart(t) ==
    /\ pc[t] = "scan_start"
    /\ pc' = [pc EXCEPT ![t] = "scan"]
    /\ scan' = [scan EXCEPT ![t] = Len(partners_store)]
    /\ reply' = NoReply
    /\ UNCHANGED <<partners_store, rtree_idx, datafile, file_lock, partner_raw,
                   nreg, registered, proc>>

\* lines 105-109: the scan; a dict that grew meanwhile raises RuntimeError
DocScanEnd(t) ==
    /\ pc[t] = "scan"
    /\ IF Len(partners_store) # scan[t] THEN Return(t, "InternalError")
       ELSE IF ensure_unique_document(partners_store, Raw(t).document)
            THEN Return(t, "DuplicateDocument")
            ELSE Goto(t, "parse")
    /\ UNCHANGED <<partners_store, rtree_idx, datafile, file_lock, nreg, proc>>

\* lines 116-120
ParseGeometry(t) ==
    /\ pc[t] = "parse"
    /\ IF /\ parse_coverage_area(Raw(t).coverageArea).ok
          /\ parse_address_point(Raw(t).address).ok
       THEN Goto(t, "store")
       ELSE Return(t, "InvalidGeometry")
    /\ UNCHANGED <<partners_store, rtree_idx, datafile, file_lock, nreg, proc>>

\* line 121
StoreRecord(t) ==
    /\ pc[t] = "store"
    /\ partners_store' = StorePut(partners_store, Sid(t), Raw(t))
    /\ Goto(t, "index")
    /\ UNCHANGED <<rtree_idx, datafile, file_lock, nreg, proc>>

\* lines 122-124
IndexInsert(t) ==
    /\ pc[t] = "index"
    /\ rtree_idx' = rtree_insert(rtree_idx, rtree_int_id_from_str(Sid(t)),
                                 bounds(parse_coverage_area(Raw(t).coverageArea).polys),
                                 Sid(t))
    /\ Goto(t, "persist")
    /\ UNCHANGED <<partners_store, datafile, file_lock, nreg, proc>>

\* lines 63-64: take file_lock, open DATAFILE for writing (truncates it)
PersistOpen(t) ==
    /\ pc[t] = "persist"
    /\ file_lock = 0
    /\ file_lock' = t
    /\ datafile' = [state |-> "empty", items |-> <<>>]
    /\ Goto(t, "dump")
    /\ UNCHANGED <<partners_store, rtree_idx, nreg, proc>>

\* line 64 raising OSError: the lock is released, the file is untouched
PersistOpenFails(t) ==
    /\ pc[t] = "persist"
    /\ file_lock = 0
    /\ Return(t, "PersistenceFailure")
    /\ UNCHANGED <<partners_store, rtree_idx, datafile, file_lock, nreg, proc>>

\* line 65: json.dump of every value of the dict, close, release
PersistDump(t) ==
    /\ pc[t] = "dump"
    /\ datafile' = [state |-> "valid", items |-> StoreValues(partners_store)]
    /\ file_lock' = 0
    /\ Return(t, "Ok")
    /\ UNCHANGED <<partners_store, rtree_idx, nreg, proc>>

\* line 65 raising OSError midway: a partial text is left behind
PersistDumpFails(t) ==
    /\ pc[t] = "dump"
    /\ datafile' = [state |-> "corrupt", items |-> <<>>]
    /\ file_lock' = 0
    /\ Return(t, "PersistenceFailure")
    /\ UNCHANGED <<partners_store, rtree_idx, nreg, proc>>

\* lines 127-131
Get(pid) ==
    /\ proc = "up"
    /\ reply' = GetReply(pid, get_partner_by_id(partners_store, pid))
    /\ UNCHANGED <<partners_store, rtree_idx, datafile, file_lock, pc, partner_raw,
                   scan, nreg, registered, proc>>

\* lines 133-152
Nearest(p) ==
    /\ proc = "up"
    /\ reply' = NearestReply(p, find_nearest_partner_including_point(
                                    partners_store, rtree_idx, p))
    /\ UNCHANGED <<partners_store, rtree_idx, datafile, file_lock, pc, partner_raw,
                   scan, nreg, registered, proc>>

\* lines 163-174: GET /partners/<segment>?lng=..&lat=.. through the router
HttpGetPartners(segment, p) ==
    /\ proc = "up"
    /\ LET result == IF dispatch(segment) = "get_partner"
                     THEN get_partner_by_id(partners_store, StrId(segment))
                     ELSE find_nearest_partner_including_point(partners_store, rtree_idx, p)
       IN  reply' = [NoReply EXCEPT !.op = "HttpGetPartners", !.id = StrId(segment),
                                    !.p = p, !.result = result,
                                    !.outcome = IF result = <<>> THEN "NotFound" ELSE "Ok"]
    /\ UNCHANGED <<partners_store, rtree_idx, datafile, file_lock, pc, partner_raw,
                   scan, nreg, registered, proc>>

LoadReply(outcome) == [NoReply EXCEPT !.op = "Load", !.outcome = outcome]

\* lines 67-86 and 155: the process starts, or is restarted between requests
Load(emptyBounds) ==
    /\ proc = "starting" \/ (proc = "up" /\ Quiescent)
    /\ IF load_raises(datafile)
       THEN /\ proc' = "crashed"
            /\ partners_store' = <<>>
            /\ rtree_idx' = <<>>
            /\ reply' = LoadReply("Crashed")
       ELSE /\ proc' = "up"
            /\ partners_store' = load_dict(json_load(datafile))
            /\ rtree_idx' = load_index(json_load(datafile), emptyBounds)
            /\ reply' = LoadReply("Ok")
    /\ UNCHANGED <<datafile, file_lock, pc, partner_raw, scan, nreg, registered>>

Step(t) ==
    \/ CheckId(t)
    \/ DocScanStart(t)
    \/ DocScanEnd(t)
    \/ ParseGeometry(t)
    \/ StoreRecord(t)
    \/ IndexInsert(t)
    \/ PersistOpen(t)
    \/ PersistOpenFails(t)
    \/ PersistDump(t)
    \/ PersistDumpFails(t)

\* request threads run concurrently
Next ==
    \/ \E t \in Threads, raw \in Payloads : Register(t, raw)
    \/ \E t \in Threads : Step(t)
    \/ \E pid \in QueryIds : Get(pid)
    \/ \E p \in QueryPoints : Nearest(p)

Spec == Init /\ [][Next]_vars

\* concurrent Register calls only, every persistence write succeeding
StepNoFailure(t) ==
    \/ CheckId(t)
    \/ DocScanStart(t)
    \/ DocScanEnd(t)
    \/ ParseGeometry(t)
    \/ StoreRecord(t)
    \/ IndexInsert(t)
    \/ PersistOpen(t)
    \/ PersistDump(t)

NextRegisters ==
    \/ \E t \in Threads, raw \in Payloads : Register(t, raw)
    \/ \E t \in Threads : StepNoFailure(t)

SpecRegisters == Init /\ [][NextRegisters]_vars

\* one request at a time: a request starts when no other is in progress
SeqRegister(t, raw) == Quiescent /\ Register(t, raw)
SeqGet(pid) == Quiescent /\ Get(pid)
SeqNearest(p) == Quiescent /\ Nearest(p)

NextSeq ==
    \/ \E t \in Threads, raw \in Payloads : SeqRegister(t, raw)
    \/ \E t \in Threads : Step(t)
    \/ \E pid \in QueryIds : SeqGet(pid)
    \/ \E p \in QueryPoints : SeqNearest(p)

SpecSeq == Init /\ [][NextSeq]_vars

\* one request at a time; _insert_partner_into_store takes records of any
\* shape, and GET requests may come through the router
SeqHttpGetPartners(segment, p) == Quiescent /\ HttpGetPartners(segment, p)

NextApp ==
    \/ \E t \in Threads, raw \in AppPayloads : SeqRegister(t, raw)
    \/ \E t \in Threads : Step(t)
    \/ \E pid \in QueryIds : SeqGet(pid)
    \/ \E p \in AppQueryPoints : SeqNearest(p)
    \/ \E segment \in PathSegments, p \in QueryPoints : SeqHttpGetPartners(segment, p)

SpecApp == Init /\ [][NextApp]_vars

\* the process starts on any snapshot file, serves one request at a time and
\* may be restarted between requests
InitLoad ==
    /\ partners_store = <<>>
    /\ rtree_idx = <<>>
    /\ datafile \in SnapshotFiles
    /\ file_lock = 0
    /\ pc = [t \in Threads |-> "idle"]
    /\ partner_raw = [t \in Threads |-> <<>>]
    /\ scan = [t \in Threads |-> 0]
    /\ nreg = 0
    /\ registered = {}
    /\ reply = NoReply
    /\ proc = "starting"

NextLoad ==
    \/ \E emptyBounds \in EmptyBoundsModes : Load(emptyBounds)
    \/ \E t \in Threads, raw \in Payloads : SeqRegister(t, raw)
    \/ \E t \in Threads : Step(t)
    \/ \E pid \in QueryIds : SeqGet(pid)
    \/ \E p \in QueryPoints : SeqNearest(p)

SpecLoad == InitLoad /\ [][NextLoad]_vars

\* ================================================================== claims
\* what the claims call coverage: the stored geometry truly contains p
InCoverage(item, p) ==
    LET cov == parse_coverage_area(item.coverageArea)
    IN  cov.ok /\ contains(cov.polys, p)

Covering(p) ==
    {sid \in StoreKeys(partners_store) : InCoverage(StoreGet(partners_store, sid), p)}

NearestNow(p) == find_nearest_partner_including_point(partners_store, rtree_idx, p)

InCall(t) == pc[t] # "idle"
Moves(t) == pc'[t] # pc[t]

\* C1: every record whose Register succeeded is returned unchanged by Get,
\* now and after every later operation.
C1_GetReturnsRegistered ==
    \A r \in registered : get_partner_by_id(partners_store, r.id) = <<r>>

C1_Witness ==
    /\ reply.op = "Get"
    /\ reply.result # <<>>
    /\ reply.result[1] \in registered
    /\ nreg >= 2
    /\ Len(partners_store) >= 2

\* C2: between requests, a point covered by exactly one stored partner is
\* answered with that partner: the index never prunes it.
C2_SoleCoverFound ==
    Quiescent =>
        \A p \in QueryPoints :
            \A sid \in Covering(p) :
                Covering(p) = {sid} => NearestNow(p) = <<StoreGet(partners_store, sid)>>

C2_Witness ==
    /\ Quiescent
    /\ reply.op = "Nearest"
    /\ Cardinality(Covering(reply.p)) = 1
    /\ Len(rtree_intersection(rtree_idx, reply.p)) >= 2
    /\ reply.result # <<>>

\* C3: a point outside every stored coverage polygon gets NoCoverage, and
\* Nearest never answers with a partner whose coverage misses the point.
C3_NoCoverageOutside ==
    \A p \in QueryPoints :
        /\ Covering(p) = {} => NearestNow(p) = <<>>
        /\ NearestNow(p) # <<>> => InCoverage(NearestNow(p)[1], p)

C3_Witness ==
    /\ reply.op = "Nearest"
    /\ reply.outcome = "NoCoverage"
    /\ Covering(reply.p) = {}
    /\ rtree_intersection(rtree_idx, reply.p) # <<>>

\* the index hits, in query order, whose partner truly covers p
CoveringHits(p) ==
    SelectSeq(rtree_intersection(rtree_idx, p),
              LAMBDA e : /\ e.obj \in StoreKeys(partners_store)
                         /\ InCoverage(StoreGet(partners_store, e.obj), p))

HitDist(p, e) ==
    distance2(p, StoreGet(partners_store, e.obj).address.coordinates[1][1])

\* C4: with two or more covering partners the answer is the one at the
\* smallest distance, and among equals the first the index query produced.
C4_NearestFirstMinimum ==
    Quiescent =>
        \A p \in QueryPoints :
            Cardinality(Covering(p)) >= 2 =>
                LET h == CoveringHits(p)
                    k == CHOOSE i \in DOMAIN h :
                            /\ \A j \in DOMAIN h : HitDist(p, h[i]) <= HitDist(p, h[j])
                            /\ \A j \in 1..(i - 1) : HitDist(p, h[j]) > HitDist(p, h[i])
                IN  NearestNow(p) = <<StoreGet(partners_store, h[k].obj)>>

C4_Witness ==
    /\ Quiescent
    /\ reply.op = "Nearest"
    /\ Cardinality(Covering(reply.p)) >= 2
    /\ LET h == CoveringHits(reply.p)
       IN  /\ HitDist(reply.p, h[1]) = HitDist(reply.p, h[2])
           /\ h[1].obj # h[2].obj
           /\ reply.result = <<StoreGet(partners_store, h[1].obj)>>

DocTakenByOther(st, raw) ==
    \E i \in DOMAIN st : st[i].sid # id_to_str(raw.id) /\ st[i].item.document = raw.document

\* C5 as stated: a Register whose document is stored under another identifier
\* fails with DuplicateDocument and changes neither store, index nor snapshot.
C5_Original ==
    [][\A t \in Threads :
          (InCall(t) /\ Moves(t) /\ DocTakenByOther(partners_store, Raw(t)))
          => /\ UNCHANGED <<partners_store, rtree_idx, datafile>>
             /\ pc'[t] = "idle" => reply'.outcome = "DuplicateDocument"]_vars

\* C5 amended: ... and whose own identifier is not stored yet fails with
\* DuplicateDocument (DuplicateId when it is); nothing is changed either way.
C5_DuplicateDocumentRejected ==
    [][\A t \in Threads :
          (InCall(t) /\ Moves(t) /\ DocTakenByOther(partners_store, Raw(t)))
          => /\ UNCHANGED <<partners_store, rtree_idx, datafile>>
             /\ pc'[t] = "idle" =>
                    reply'.outcome = IF Sid(t) \in StoreKeys(partners_store)
                                     THEN "DuplicateId" ELSE "DuplicateDocument"]_vars

C5_Witness ==
    /\ reply.op = "Register"
    /\ reply.outcome = "DuplicateDocument"
    /\ DocTakenByOther(partners_store, reply.rec[1])
    /\ get_partner_by_id(partners_store, reply.id) = <<>>

\* C6: a Register whose identifier is already stored fails with DuplicateId
\* and leaves store, index and snapshot as they were; Get still returns the
\* record stored first.
C6_DuplicateIdRejected ==
    [][\A t \in Threads :
          (InCall(t) /\ Moves(t) /\ pc[t] = "check_id" /\ Sid(t) \in StoreKeys(partners_store))
          => /\ pc'[t] = "idle"
             /\ reply'.outcome = "DuplicateId"
             /\ UNCHANGED <<partners_store, rtree_idx, datafile>>
             /\ get_partner_by_id(partners_store', Raw(t).id)
                    = <<StoreGet(partners_store, Sid(t))>>]_vars

C6_Witness ==
    /\ reply.op = "Register"
    /\ reply.outcome = "DuplicateId"
    /\ get_partner_by_id(partners_store, reply.id) # <<>>
    /\ get_partner_by_id(partners_store, reply.id) # reply.rec

\* C7: no two stored records share a document, concurrent Registers included.
C7_DocumentsUnique ==
    \A i, j \in DOMAIN partners_store :
        i # j => partners_store[i].item.document # partners_store[j].item.document

\* C8: a reader never finds a record in the store that has no index entry,
\* nor an index entry whose record is not in the store.
C8_ReaderSeesStoreAndIndexAgree ==
    /\ (reply.op = "Get" /\ reply.outcome = "Ok")
       => \E i \in DOMAIN rtree_idx : rtree_idx[i].obj = id_to_str(reply.id)
    /\ \A i \in DOMAIN rtree_idx : rtree_idx[i].obj \in StoreKeys(partners_store)

\* C9: store update, index insertion and persistence write of one Register
\* all complete before the store update of another begins.
InMutation(t) == pc[t] \in {"index", "persist", "dump"}

C9_RegistrationsSerialized ==
    \A t, u \in Threads : (t # u /\ InMutation(t)) => ~InMutation(u)

\* C10: after any Register, successful or failed, the records in memory are
\* the records of the durable snapshot.
C10_MemoryEqualsSnapshot ==
    (Quiescent /\ nreg > 0)
    => /\ {partners_store[i].item : i \in DOMAIN partners_store}
            = {datafile.items[i] : i \in DOMAIN datafile.items}
       /\ \A i \in DOMAIN rtree_idx :
            \E j \in DOMAIN datafile.items :
                id_to_str(datafile.items[j].id) = rtree_idx[i].obj

StoreItems == {partners_store[i].item : i \in DOMAIN partners_store}

\* C11: a registry built by successful Registers answers every Get and every
\* Nearest after a reload of its snapshot as it did before.
C11_ReloadRoundTrip ==
    [][(/\ proc = "up"
        /\ reply'.op = "Load"
        /\ registered # {}
        /\ StoreItems = registered
        /\ datafile.state = "valid"
        /\ datafile.items = StoreValues(partners_store))
       => /\ proc' = "up"
          /\ \A pid \in QueryIds :
                get_partner_by_id(partners_store', pid) = get_partner_by_id(partners_store, pid)
          /\ \A p \in QueryPoints :
                find_nearest_partner_including_point(partners_store', rtree_idx', p)
                    = NearestNow(p)]_vars

C11_Witness ==
    /\ reply.op = "Load"
    /\ proc = "up"
    /\ Cardinality(registered) >= 2
    /\ StoreItems = registered
    /\ datafile.items = StoreValues(partners_store)
    /\ \E p \in QueryPoints : NearestNow(p) # <<>>

\* C12: Load never fails fatally: a missing, empty or malformed snapshot
\* gives an empty registry and an empty index.
C12_LoadNeverFatal ==
    /\ proc # "crashed"
    /\ (reply.op = "Load" /\ datafile.state # "valid")
       => (partners_store = <<>> /\ rtree_idx = <<>>)

\* C13: after Load, a record whose coverage area does not parse is in the
\* store, has no index entry and is never the answer of Nearest; every other
\* record is in the store and indexed by its bounding box.
C13_UnparsableKeptUnindexed ==
    (reply.op = "Load" /\ proc = "up" /\ datafile.state = "valid")
    => \A i \in DOMAIN datafile.items :
          LET item == datafile.items[i]
              sid == id_to_str(item.id)
              cov == parse_coverage_area(item.coverageArea)
          IN  /\ get_partner_by_id(partners_store, item.id) = <<item>>
              /\ IF cov.ok
                 THEN \E k \in DOMAIN rtree_idx :
                        rtree_idx[k].obj = sid /\ rtree_idx[k].box = bounds(cov.polys)
                 ELSE /\ \A k \in DOMAIN rtree_idx : rtree_idx[k].obj # sid
                      /\ \A p \in QueryPoints : NearestNow(p) # <<item>>

BadGeometry(raw) ==
    \/ raw.coverageArea.type \notin {"Polygon", "MultiPolygon"}
    \/ raw.coverageArea.coordinates = <<>>
    \/ raw.address.type # "Point"

\* C14: a Register whose coverage area or address does not parse changes
\* neither store, index nor snapshot, and its parsing step ends the call with
\* InvalidGeometry.
C14_InvalidGeometryNoMutation ==
    [][\A t \in Threads :
          (InCall(t) /\ Moves(t) /\ BadGeometry(Raw(t)))
          => /\ UNCHANGED <<partners_store, rtree_idx, datafile>>
             /\ pc[t] = "parse" => (pc'[t] = "idle" /\ reply'.outcome = "InvalidGeometry")
             /\ pc'[t] = "idle" => reply'.outcome # "Ok"]_vars

C14_Witness ==
    /\ reply.op = "Register"
    /\ reply.outcome = "InvalidGeometry"
    /\ reply.rec[1].coverageArea.type = "Point"
    /\ partners_store # <<>>

OnlyScenarioRegistered ==
    /\ Quiescent
    /\ registered = {RecScenario}
    /\ StoreItems = {RecScenario}

\* C15 as stated: with only partner A of the scenario registered,
\* Nearest(-46.574, -23.551) returns partner A.
C15_Original ==
    OnlyScenarioRegistered => NearestNow(ScenarioPoint) = <<RecScenario>>

\* C15 amended: ... Nearest(-46.574, -23.551) returns NoCoverage.
C15_ScenarioNoCoverage ==
    OnlyScenarioRegistered => NearestNow(ScenarioPoint) = <<>>

C15_Witness ==
    /\ OnlyScenarioRegistered
    /\ reply.op = "Nearest"
    /\ reply.p = ScenarioPoint
    /\ reply.outcome = "NoCoverage"

\* p is on an edge or vertex of the coverage area of item, inside none of
\* its polygons
OnCoverageBoundary(item, p) ==
    LET cov == parse_coverage_area(item.coverageArea)
    IN  /\ cov.ok
        /\ \E i \in 1..Len(cov.polys) : OnRing(cov.polys[i], p)
        /\ \A i \in 1..Len(cov.polys) : ~InRingInterior(cov.polys[i], p)

\* C16 as stated: the containment test of Nearest counts a point on an edge
\* or vertex of a stored partner's coverage polygon as contained.
C16_Original ==
    \A p \in QueryPoints :
        \A i \in DOMAIN partners_store :
            OnCoverageBoundary(partners_store[i].item, p)
            => Covers(partners_store, partners_store[i].sid, p)

\* C16 amended: the containment test of Nearest does not count such a point
\* as contained; that partner is never the answer for it, and the answer is
\* NoCoverage unless another partner has the point in its interior.
C16_BoundaryExcluded ==
    \A p \in QueryPoints :
        \A i \in DOMAIN partners_store :
            OnCoverageBoundary(partners_store[i].item, p)
            => /\ ~Covers(partners_store, partners_store[i].sid, p)
               /\ NearestNow(p) # <<partners_store[i].item>>
               /\ (\A j \in DOMAIN partners_store :
                      \A k \in 1..Len(partners_store[j].item.coverageArea.coordinates) :
                         ~InRingInterior(partners_store[j].item.coverageArea.coordinates[k], p))
                  => NearestNow(p) = <<>>

C16_Witness ==
    /\ reply.op = "Nearest"
    /\ reply.outcome = "NoCoverage"
    /\ \E i \in DOMAIN partners_store :
          /\ OnCoverageBoundary(partners_store[i].item, reply.p)
          /\ partners_store[i].item \in registered
    /\ rtree_intersection(rtree_idx, reply.p) # <<>>

\* the canonical string form of an identifier
StringForm(pid) == IF pid.kind = "int" THEN DecimalString(pid.n) ELSE pid.s

\* C17: identifiers are compared by string form in Get and in Register: a
\* Get whose identifier has the string form of a registered record's
\* identifier returns that record, and a Register whose identifier has the
\* string form of a registered record's identifier fails with DuplicateId.
C17_IdsComparedByStringForm ==
    [][/\ \A r \in registered :
             (reply'.op = "Get" /\ StringForm(reply'.id) = StringForm(r.id))
             => reply'.result = <<r>>
       /\ \A t \in Threads :
             (/\ pc[t] = "check_id"
              /\ Moves(t)
              /\ \E r \in registered : StringForm(r.id) = StringForm(Raw(t).id))
             => (pc'[t] = "idle" /\ reply'.outcome = "DuplicateId")]_vars

C17_Witness ==
    /\ reply.op = "Get"
    /\ reply.id = StrId("1")
    /\ reply.result # <<>>
    /\ reply.result[1].id = IntId(1)
    /\ reply.result[1] \in registered
    /\ nreg >= 2

\* C18: GET /partners/nearest is answered by Nearest, whether or not a
\* partner with identifier "nearest" exists.
C18_NearestRouteDispatched ==
    (reply.op = "HttpGetPartners" /\ reply.id = StrId("nearest"))
    => reply.result = NearestNow(reply.p)

IndexEntriesOf(sid) == {i \in DOMAIN rtree_idx : rtree_idx[i].obj = sid}

\* C19: whenever no Register is in progress, the index holds exactly one
\* entry for each stored identifier, whose box is the bounding box of the
\* stored record's coverage area, and no entry for any other identifier.
C19_OneIndexEntryPerStoredId ==
    Quiescent =>
        /\ \A sid \in StoreKeys(partners_store) :
              /\ Cardinality(IndexEntriesOf(sid)) = 1
              /\ \A i \in IndexEntriesOf(sid) :
                    rtree_idx[i].box
                        = bounds(parse_coverage_area(
                                    StoreGet(partners_store, sid).coverageArea).polys)
        /\ \A i \in DOMAIN rtree_idx : rtree_idx[i].obj \in StoreKeys(partners_store)

\* C20: with no persistence write failing, a Register that returns success
\* has its record in the snapshot at that moment, and once no Register is
\* in progress the snapshot holds exactly the records of the store.
C20_SuccessIsPersisted ==
    /\ (reply.op = "Register" /\ reply.outcome = "Ok")
       => \E i \in DOMAIN datafile.items : datafile.items[i] = reply.rec[1]
    /\ (Quiescent /\ registered # {})
       => (datafile.state = "valid" /\ datafile.items = StoreValues(partners_store))

====
